---------------------------- MODULE Spec2Model ----------------------------
(***************************************************************************)
(* A model of sidero, a line-delimited JSON-RPC (MCP) server:              *)
(*   src/src/protocol.rs  the wire types and their serde decoding,         *)
(*   src/src/handler.rs   the method table and the tool handlers,          *)
(*   src/src/main.rs      the transport loop over stdin/stdout.            *)
(*                                                                         *)
(* JSON values are records of one uniform shape per role, so that TLC can  *)
(* compare them: a kind tag k and the payload the code looks at.           *)
(***************************************************************************)
EXTENDS Integers, Sequences, FiniteSets, TLC

(***************************************************************************)
(* Bounds of the model.                                                    *)
(***************************************************************************)
\* lines the transport loop reads in one run
MaxLines == 2
\* longest JSON array line of the decoding specification
MaxElems == 4
\* longest repos array of a semgrep_findings call
MaxRepos == 2

(***************************************************************************)
(* JSON values as serde_json sees them.                                    *)
(*   absent  the member is not in the object                               *)
(*   null    JSON null                                                     *)
(*   int     a number that fits i64                                        *)
(*   num     any other number (a float, or an integer outside i64)         *)
(*   str     a string                                                      *)
(*   bool    true / false                                                  *)
(*   obj     an object that is not a well-formed error object              *)
(*   errobj  an object {code: i32, message: string, [data]}                *)
(***************************************************************************)
JV(k, s, n) == [k |-> k, s |-> s, n |-> n]
Absent == JV("absent", "", 0)
Null   == JV("null", "", 0)
Int_(n) == JV("int", "", n)
Num    == JV("num", "", 0)
Str(s) == JV("str", s, 0)
Bool   == JV("bool", "", 0)
ObjV   == JV("obj", "", 0)
ErrObjV == JV("errobj", "", 0)

(***************************************************************************)
(* protocol.rs: RequestId, an untagged enum Number(i64) | String(String).  *)
(* NoId is Option<RequestId>::None.                                        *)
(***************************************************************************)
RequestId(k, s, n) == [k |-> k, s |-> s, n |-> n]
NoId == RequestId("None", "", 0)

\* serde's untagged RequestId: Number(i64) is tried first, then String.
IsRequestId(v) == v.k \in {"int", "str"}
DecodeRequestId(v) ==
    IF v.k = "int" THEN RequestId("Number", "", v.n)
    ELSE IF v.k = "str" THEN RequestId("String", v.s, 0)
    ELSE NoId

\* Option<RequestId>: a missing member and null are None, anything else
\* must be a RequestId.
IsOptionRequestId(v) == v.k \in {"absent", "null"} \/ IsRequestId(v)

\* a mutant of EncodeRequestId: a number is written as a string
EncodeRequestId_Quoted(id) ==
    IF id.k = "Number" THEN Str("number")
    ELSE IF id.k = "String" THEN Str(id.s)
    ELSE Null

\* Serialize of RequestId (untagged): a bare integer or a bare string;
\* Option::None is written as null (the field has no skip_serializing_if).
EncodeRequestId(id) ==
    IF id.k = "Number" THEN Int_(id.n)
    ELSE IF id.k = "String" THEN Str(id.s)
    ELSE Null

(***************************************************************************)
(* serde_json::Value payloads the handlers look into.                      *)
(* Arguments: the `arguments` of tools/call, each member by its kind.      *)
(***************************************************************************)
Arguments(k, paths, config, rule, code_files, code, language, repos) ==
    [k |-> k, paths |-> paths, config |-> config, rule |-> rule,
     code_files |-> code_files, code |-> code, language |-> language,
     repos |-> repos]
NoArguments == Arguments("absent", "absent", "absent", "absent", "absent",
                         "absent", "absent", "absent")
NullArguments == [NoArguments EXCEPT !.k = "null"]
EmptyArguments == [NoArguments EXCEPT !.k = "obj"]

\* params: Option<Value> of a request or a notification.
Params(k, name, arguments, uri) ==
    [k |-> k, name |-> name, arguments |-> arguments, uri |-> uri]
\* The uri member of resources/read params: its kind and, for a string,
\* the segments between its '/' characters.
Uri(parts) == [k |-> "str", parts |-> parts]
NoUri == [k |-> "absent", parts |-> <<>>]
BadUri == [k |-> "other", parts |-> <<>>]
NoParams == Params("absent", Absent, NoArguments, NoUri)
NullParams == Params("null", Absent, NoArguments, NoUri)
EmptyParams == Params("obj", Absent, NoArguments, NoUri)
ScalarParams == Params("other", Absent, NoArguments, NoUri)

\* result: Value of a response: a kind and the strings it carries.
Result(k, items) == [k |-> k, items |-> items]
NoResult == Result("absent", <<>>)
NullResult == Result("null", <<>>)

\* protocol.rs: JsonRpcError {code, message, data}; the message as the
\* sequence of the pieces format! joins.  k = "absent": no error member;
\* k = "other": a member that is no error object.  data: Option<Value> is
\* None, Some(null) or Some(value) in the program, and on a line the data
\* member is absent, null or a value.
JsonRpcError(code, message) ==
    [k |-> "err", code |-> code, message |-> message, data |-> "None"]
NoError == [k |-> "absent", code |-> 0, message |-> <<>>, data |-> "None"]
BadError == [k |-> "other", code |-> 0, message |-> <<>>, data |-> "None"]

\* Serialize of JsonRpcError: data has skip_serializing_if = "Option::is_none",
\* so None writes no member; Some(Value::Null) writes null.
EncodeData(data) ==
    CASE data = "None" -> "absent"
      [] data = "Some(null)" -> "null"
      [] OTHER -> "value"
EncodeError(e) == IF e.k = "err" THEN [e EXCEPT !.data = EncodeData(e.data)] ELSE e

\* Deserialize of JsonRpcError: a missing data member and null are both None.
DecodeData(member) == IF member \in {"absent", "null"} THEN "None" ELSE "Some(value)"
DecodeError(e) == IF e.k = "err" THEN [e EXCEPT !.data = DecodeData(e.data)] ELSE e

\* An error object on a line, as a peer writes it.
WireError(code, message, data) ==
    [k |-> "err", code |-> code, message |-> message, data |-> data]
SomeError == WireError(1, <<"peer error">>, "absent")

(***************************************************************************)
(* A line of input or output, after trim().                                *)
(*   blank    empty or whitespace only                                     *)
(*   garbage  not JSON                                                     *)
(*   scalar   a JSON string, number, boolean or null                       *)
(*   array    a JSON array, its elements in elems                          *)
(*   object   a JSON object, its members in the fields                     *)
(***************************************************************************)
Line(shape, jsonrpc, id, method, params, result, error, elems) ==
    [shape |-> shape, jsonrpc |-> jsonrpc, id |-> id, method |-> method,
     params |-> params, result |-> result, error |-> error, elems |-> elems]
Object(jsonrpc, id, method, params, result, error) ==
    Line("object", jsonrpc, id, method, params, result, error, <<>>)
Array(elems) ==
    Line("array", Absent, Absent, Absent, NoParams, NoResult, NoError, elems)
Blank == Line("blank", Absent, Absent, Absent, NoParams, NoResult, NoError, <<>>)
Garbage == Line("garbage", Absent, Absent, Absent, NoParams, NoResult, NoError, <<>>)
Scalar == Line("scalar", Absent, Absent, Absent, NoParams, NoResult, NoError, <<>>)

\* An array element read as params, as a result or as an error.
ElemParams(v) ==
    IF v.k = "null" THEN NullParams
    ELSE IF v.k \in {"obj", "errobj"} THEN EmptyParams
    ELSE ScalarParams
ElemResult(v) == Result(v.k, <<>>)
ElemError(v) == IF v.k = "errobj" THEN SomeError ELSE BadError

(***************************************************************************)
(* protocol.rs: JsonRpcMessage, an untagged enum.  A decoded message:      *)
(* variant is Request, Response, Notification, Error, or ParseFailure      *)
(* when serde_json::from_str returns Err.                                  *)
(***************************************************************************)
Message(variant, id, method, params, result, error) ==
    [variant |-> variant, id |-> id, method |-> method, params |-> params,
     result |-> result, error |-> error]
ParseFailure == Message("ParseFailure", NoId, "", NoParams, NoResult, NoError)

\* Option<Value>: a missing member and null are both None.
OptionValue(p) == IF p.k = "null" THEN [p EXCEPT !.k = "absent"] ELSE p

\* A derived struct is read from a map by member name (unknown members are
\* ignored) or from a sequence by position (every field, no more).
JsonRpcRequest(l) ==
    CASE l.shape = "object" ->
           IF l.jsonrpc.k = "str" /\ IsRequestId(l.id) /\ l.method.k = "str"
           THEN Message("Request", DecodeRequestId(l.id), l.method.s,
                        OptionValue(l.params), NoResult, NoError)
           ELSE ParseFailure
      [] l.shape = "array" ->
           IF Len(l.elems) = 4 /\ l.elems[1].k = "str"
              /\ IsRequestId(l.elems[2]) /\ l.elems[3].k = "str"
           THEN Message("Request", DecodeRequestId(l.elems[2]), l.elems[3].s,
                        OptionValue(ElemParams(l.elems[4])), NoResult, NoError)
           ELSE ParseFailure
      [] OTHER -> ParseFailure

JsonRpcResponse(l) ==
    CASE l.shape = "object" ->
           IF l.jsonrpc.k = "str" /\ IsRequestId(l.id) /\ l.result.k # "absent"
           THEN Message("Response", DecodeRequestId(l.id), "", NoParams,
                        l.result, NoError)
           ELSE ParseFailure
      [] l.shape = "array" ->
           IF Len(l.elems) = 3 /\ l.elems[1].k = "str" /\ IsRequestId(l.elems[2])
           THEN Message("Response", DecodeRequestId(l.elems[2]), "", NoParams,
                        ElemResult(l.elems[3]), NoError)
           ELSE ParseFailure
      [] OTHER -> ParseFailure

JsonRpcNotification(l) ==
    CASE l.shape = "object" ->
           IF l.jsonrpc.k = "str" /\ l.method.k = "str"
           THEN Message("Notification", NoId, l.method.s,
                        OptionValue(l.params), NoResult, NoError)
           ELSE ParseFailure
      [] l.shape = "array" ->
           IF Len(l.elems) = 3 /\ l.elems[1].k = "str" /\ l.elems[2].k = "str"
           THEN Message("Notification", NoId, l.elems[2].s,
                        OptionValue(ElemParams(l.elems[3])), NoResult, NoError)
           ELSE ParseFailure
      [] OTHER -> ParseFailure

JsonRpcErrorResponse(l) ==
    CASE l.shape = "object" ->
           IF l.jsonrpc.k = "str" /\ IsOptionRequestId(l.id) /\ l.error.k = "err"
           THEN Message("Error", DecodeRequestId(l.id), "", NoParams,
                        NoResult, DecodeError(l.error))
           ELSE ParseFailure
      [] l.shape = "array" ->
           IF Len(l.elems) = 3 /\ l.elems[1].k = "str"
              /\ IsOptionRequestId(l.elems[2]) /\ l.elems[3].k = "errobj"
           THEN Message("Error", DecodeRequestId(l.elems[2]), "", NoParams,
                        NoResult, DecodeError(ElemError(l.elems[3])))
           ELSE ParseFailure
      [] OTHER -> ParseFailure

\* #[serde(untagged)]: the variants are tried in the order they are
\* declared, Request, Response, Notification, Error; the first that
\* deserializes wins, and none is an error.
JsonRpcMessage(l) ==
    IF JsonRpcRequest(l) # ParseFailure THEN JsonRpcRequest(l)
    ELSE IF JsonRpcResponse(l) # ParseFailure THEN JsonRpcResponse(l)
    ELSE IF JsonRpcNotification(l) # ParseFailure THEN JsonRpcNotification(l)
    ELSE JsonRpcErrorResponse(l)

(***************************************************************************)
(* The collaborators.  What a call meets is drawn when the request is      *)
(* dispatched:                                                             *)
(*   tempfile  NamedTempFile::new and std::fs::write                       *)
(*   run       the semgrep subprocess: it cannot be started, or it exits   *)
(*             with a status and a stdout                                  *)
(*   http      the first HTTP step that fails, or ok                       *)
(***************************************************************************)
TempfileOutcomes == {"ok", "create_failed", "write_failed"}
RunOutcomes ==
    {[spawned |-> FALSE, success |-> FALSE, stdout |-> "empty"]}
    \cup [spawned : {TRUE}, success : BOOLEAN, stdout : {"empty", "json", "text"}]
HttpOutcomes ==
    {"ok", "deployments_send", "deployments_status", "deployments_parse",
     "deployments_none", "findings_send", "findings_status", "findings_parse",
     "fetch_send", "fetch_status", "fetch_text"}
Envs == [tempfile : TempfileOutcomes, run : RunOutcomes, http : HttpOutcomes]

\* The environments in which at most one collaborator departs from the
\* plain case.  No handler reaches both the subprocess and the HTTP client,
\* and a tempfile failure returns before the subprocess is started, so these
\* yield every reply Envs yields.
PlainRun == [spawned |-> TRUE, success |-> TRUE, stdout |-> "json"]
LoopEnvs ==
    {e \in Envs :
        \/ e.tempfile = "ok" /\ e.http = "ok"
        \/ e.run = PlainRun /\ e.http = "ok"
        \/ e.tempfile = "ok" /\ e.run = PlainRun}

\* String::from_utf8_lossy(&output.stdout), as a token.
Stdout(run) ==
    CASE run.stdout = "empty" -> ""
      [] run.stdout = "json" -> "{stdout json}"
      [] OTHER -> "stdout text"

\* What a handler returns, Result<Value, JsonRpcError>, with the
\* collaborator operations it performed, in order.
Ok(result, calls) ==
    [ok |-> TRUE, result |-> result, error |-> NoError, calls |-> calls]
Err(code, message, calls) ==
    [ok |-> FALSE, result |-> NoResult, error |-> JsonRpcError(code, message),
     calls |-> calls]

\* a mutant of internal_error: an implementation-defined server error code
internal_error_ServerError(message, calls) == Err(-32000, message, calls)

\* handler.rs: internal_error
internal_error(message, calls) == Err(-32603, message, calls)

(***************************************************************************)
(* semgrep_wrapper.rs.  Each returns [ok, text, message, calls]:           *)
(* anyhow's Display of a context error is the context string.              *)
(***************************************************************************)
CollabOk(text, calls) == [ok |-> TRUE, text |-> text, message |-> <<>>, calls |-> calls]
CollabErr(message, calls) == [ok |-> FALSE, text |-> "", message |-> message, calls |-> calls]

get_version(env) ==
    IF ~env.run.spawned
    THEN CollabErr(<<"Failed to execute semgrep --version">>, <<"semgrep --version">>)
    ELSE CollabOk(Stdout(env.run), <<"semgrep --version">>)

get_supported_languages(env) ==
    IF ~env.run.spawned
    THEN CollabErr(<<"Failed to execute semgrep show supported-languages">>,
                   <<"semgrep show supported-languages">>)
    ELSE CollabOk(Stdout(env.run), <<"semgrep show supported-languages">>)

\* The tail shared by scan and scan_with_custom_rule: output(), the exit
\* status test and the parse of stdout.
ScanOutput(env, calls) ==
    IF ~env.run.spawned
    THEN CollabErr(<<"Failed to execute semgrep scan">>, calls)
    ELSE IF ~env.run.success /\ env.run.stdout = "empty"
    THEN CollabErr(<<"Semgrep failed: ", "stderr text">>, calls)
    ELSE IF env.run.stdout # "json"
    THEN CollabErr(<<"Failed to parse Semgrep JSON output">>, calls)
    ELSE CollabOk(Stdout(env.run), calls)

scan(env) == ScanOutput(env, <<"semgrep scan">>)

scan_with_custom_rule(env) ==
    IF env.tempfile = "create_failed"
    THEN CollabErr(<<"Failed to create temp rule file">>, <<"tempfile">>)
    ELSE IF env.tempfile = "write_failed"
    THEN CollabErr(<<"Failed to write rule content">>, <<"tempfile", "write rule">>)
    ELSE ScanOutput(env, <<"tempfile", "write rule", "semgrep scan">>)

dump_ast(env) ==
    IF env.tempfile = "create_failed"
    THEN CollabErr(<<"Failed to create temp code file">>, <<"tempfile">>)
    ELSE IF env.tempfile = "write_failed"
    THEN CollabErr(<<"Failed to write code content">>, <<"tempfile", "write code">>)
    ELSE LET calls == <<"tempfile", "write code", "semgrep --dump-ast">> IN
         IF ~env.run.spawned
         THEN CollabErr(<<"Failed to execute semgrep --dump-ast">>, calls)
         ELSE IF ~env.run.success
         THEN CollabErr(<<"Semgrep AST dump failed: ", "stderr text">>, calls)
         ELSE IF env.run.stdout # "json"
         THEN CollabErr(<<"Failed to parse Semgrep AST output">>, calls)
         ELSE CollabOk(Stdout(env.run), calls)

(***************************************************************************)
(* api_client.rs                                                           *)
(***************************************************************************)
get_deployment_slug(env) ==
    LET calls == <<"GET deployments">> IN
    CASE env.http = "deployments_send" -> CollabErr(<<"Failed to fetch deployments">>, calls)
      [] env.http = "deployments_status" ->
           CollabErr(<<"Failed to fetch deployments: ", "status">>, calls)
      [] env.http = "deployments_parse" ->
           CollabErr(<<"Failed to parse deployments response">>, calls)
      [] env.http = "deployments_none" ->
           CollabErr(<<"No deployments found for this token">>, calls)
      [] OTHER -> CollabOk("slug", calls)

get_findings(env) ==
    LET slug == get_deployment_slug(env)
        calls == slug.calls \o <<"GET findings">>
    IN  IF ~slug.ok THEN slug
        ELSE CASE env.http = "findings_send" ->
                    CollabErr(<<"Failed to send request to Semgrep Findings API">>, calls)
               [] env.http = "findings_status" ->
                    CollabErr(<<"API request failed with status ", "status", ": ", "body">>,
                              calls)
               [] env.http = "findings_parse" ->
                    CollabErr(<<"Failed to parse filings API response">>, calls)
               [] OTHER -> CollabOk("{findings json}", calls)

fetch_url(url, env) ==
    LET calls == <<"GET " \o url>> IN
    CASE env.http = "fetch_send" -> CollabErr(<<"Failed to fetch URL: ", url>>, calls)
      [] env.http = "fetch_status" -> CollabErr(<<"Request failed: ", "status">>, calls)
      [] env.http = "fetch_text" -> CollabErr(<<"Failed to get response text">>, calls)
      [] OTHER -> CollabOk("body of " \o url, calls)

(***************************************************************************)
(* handler.rs.  A handler takes the request's params, what the             *)
(* collaborators will answer (env) and whether SEMGREP_APP_TOKEN is set.   *)
(***************************************************************************)
\* The method table of handle_request, in the order of its match arms.
Methods ==
    <<"initialize", "tools/list", "tools/call", "prompts/list", "prompts/get",
      "resources/list", "resources/read", "notifications/initialized">>
MethodSet == {Methods[i] : i \in 1..Len(Methods)}

\* a mutant of ToolNames: the two scans change places
ToolNames_Reordered ==
    <<"semgrep_scan_with_custom_rule", "semgrep_scan", "get_abstract_syntax_tree",
      "semgrep_findings", "get_version", "supported_languages">>

\* The tools of handle_list_tools, in the order of the vec!.
ToolNames ==
    <<"semgrep_scan", "semgrep_scan_with_custom_rule", "get_abstract_syntax_tree",
      "semgrep_findings", "get_version", "supported_languages">>

\* The names the match of handle_call_tool has an arm for.
CallToolArms ==
    {"get_version", "supported_languages", "semgrep_scan",
     "semgrep_scan_with_custom_rule", "get_abstract_syntax_tree",
     "semgrep_findings"}

\* CallToolResult { content: vec![Content::Text { text }], isError: None }
CallToolResult(text) == Result("CallToolResult", <<text>>)

\* serde_json::from_value::<T>(params.unwrap_or(json!({}))) for the three
\* params structs: the error text when the member `field` (a String) cannot
\* be read, <<>> when it can.
\* a mutant of FromValueError: a missing member defaults to the empty string
FromValueError_Defaulted(params, field) ==
    IF params.k = "other" \/ field.k \notin {"absent", "str"}
    THEN <<"invalid type">>
    ELSE <<>>

FromValueError(params, field) ==
    IF params.k = "other" THEN <<"invalid type">>
    ELSE IF params.k \in {"absent", "null"} \/ field.k = "absent"
    THEN <<"missing field">>
    ELSE IF field.k # "str" THEN <<"invalid type">>
    ELSE <<>>

handle_initialize(params, env) ==
    LET probe == get_version(env)
        version == IF probe.ok THEN probe.text ELSE "unknown"
    IN  Ok(Result("InitializeResult",
                  <<"2024-11-05", "logging:{}", "tools:{listChanged:false}",
                    "sidero", version>>),
           probe.calls)

handle_list_tools == Ok(Result("ListToolsResult", ToolNames), <<>>)

\* Vec<String> from args.get(key).unwrap_or(&json!([])): a missing member is
\* the empty list, a member that is no array of strings is an error.
VecStringOk(kind) == kind \in {"absent", "strs"}
\* args.get(key).and_then(|v| v.as_str())
AsStrOk(kind) == kind = "str"

\* Value::get on something that is no object is None for every key.
ArgumentsOrEmpty(arguments) ==
    IF arguments.k = "obj" THEN arguments ELSE EmptyArguments

tool_get_version(env) ==
    LET r == get_version(env) IN
    IF r.ok THEN Ok(CallToolResult(r.text), r.calls)
    ELSE internal_error(r.message, r.calls)

tool_supported_languages(env) ==
    LET r == get_supported_languages(env) IN
    IF r.ok THEN Ok(CallToolResult(r.text), r.calls)
    ELSE internal_error(r.message, r.calls)

tool_semgrep_scan(args, env) ==
    IF ~VecStringOk(args.paths) THEN Err(-32602, <<"Invalid paths">>, <<>>)
    ELSE LET r == scan(env) IN
         IF r.ok THEN Ok(CallToolResult(r.text), r.calls)
         ELSE internal_error(r.message, r.calls)

tool_semgrep_scan_with_custom_rule(args, env) ==
    IF ~AsStrOk(args.rule) THEN Err(-32602, <<"Missing rule">>, <<>>)
    ELSE IF ~VecStringOk(args.code_files)
    THEN Err(-32602, <<"Invalid code_files">>, <<>>)
    ELSE LET r == scan_with_custom_rule(env) IN
         IF r.ok THEN Ok(CallToolResult(r.text), r.calls)
         ELSE internal_error(r.message, r.calls)

tool_get_abstract_syntax_tree(args, env) ==
    IF ~AsStrOk(args.code) THEN Err(-32602, <<"Missing code">>, <<>>)
    ELSE IF ~AsStrOk(args.language) THEN Err(-32602, <<"Missing language">>, <<>>)
    ELSE LET r == dump_ast(env) IN
         IF r.ok THEN Ok(CallToolResult(r.text), r.calls)
         ELSE internal_error(r.message, r.calls)

\* The members of the `arguments` of semgrep_findings as values: a member
\* is an array of scalars or one scalar.
Member(v) == [arr |-> FALSE, v |-> v, elems |-> <<>>]
List(elems) == [arr |-> TRUE, v |-> Null, elems |-> elems]
\* arguments: Value, an object (a map from its keys to their values) or not
FindingsArguments(k, members) == [k |-> k, members |-> members]
EmptyQuery == [key \in {} |-> Member(Null)]

\* [&str]::join(sep): the strings with sep between neighbours
RECURSIVE join(_, _)
join(strs, sep) ==
    IF strs = <<>> THEN ""
    ELSE IF Len(strs) = 1 THEN strs[1]
    ELSE join(SubSeq(strs, 1, Len(strs) - 1), sep) \o sep \o strs[Len(strs)]

\* iter().filter_map(|x| x.as_str()): the strings among the elements
as_str(elems) ==
    LET strs == SelectSeq(elems, LAMBDA x : x.k = "str")
    IN  [i \in 1..Len(strs) |-> strs[i].s]

\* a mutant of findings_query: repos is passed like any other argument
findings_query_ReposVerbatim(arguments) ==
    IF arguments.k # "obj" THEN EmptyQuery
    ELSE LET obj == arguments.members IN
         [key \in {k \in DOMAIN obj : obj[k] # Member(Null)} |-> obj[key]]

\* handler.rs 157-168: the query map q built from the arguments.
findings_query(arguments) ==
    IF arguments.k # "obj" THEN EmptyQuery
    ELSE LET obj == arguments.members
             flattened(k) == k = "repos" /\ obj[k].arr
         IN  [key \in {k \in DOMAIN obj : flattened(k) \/ obj[k] # Member(Null)} |->
                IF flattened(key) THEN Member(Str(join(as_str(obj[key].elems), ",")))
                ELSE obj[key]]

\* a mutant of tool_semgrep_findings: the arguments are validated before the
\* token is looked up
tool_semgrep_findings_ArgsFirst(args, env, token) ==
    LET lookup == <<"env SEMGREP_APP_TOKEN">> IN
    IF args.repos = "other" THEN Err(-32602, <<"Invalid repos">>, <<>>)
    ELSE IF ~token THEN Err(-32603, <<"SEMGREP_APP_TOKEN not set">>, lookup)
    ELSE LET r == get_findings(env) IN
         IF r.ok THEN Ok(CallToolResult(r.text), lookup \o r.calls)
         ELSE internal_error(r.message, lookup \o r.calls)

tool_semgrep_findings(args, env, token) ==
    LET lookup == <<"env SEMGREP_APP_TOKEN">> IN
    IF ~token THEN Err(-32603, <<"SEMGREP_APP_TOKEN not set">>, lookup)
    ELSE LET r == get_findings(env) IN
         IF r.ok THEN Ok(CallToolResult(r.text), lookup \o r.calls)
         ELSE internal_error(r.message, lookup \o r.calls)

handle_call_tool(params, env, token) ==
    LET bad == FromValueError(params, params.name)
        args == ArgumentsOrEmpty(params.arguments)
        name == params.name.s
    IN  IF bad # <<>> THEN Err(-32602, <<"Invalid params: ">> \o bad, <<>>)
        ELSE CASE name = "get_version" -> tool_get_version(env)
               [] name = "supported_languages" -> tool_supported_languages(env)
               [] name = "semgrep_scan" -> tool_semgrep_scan(args, env)
               [] name = "semgrep_scan_with_custom_rule" ->
                    tool_semgrep_scan_with_custom_rule(args, env)
               [] name = "get_abstract_syntax_tree" ->
                    tool_get_abstract_syntax_tree(args, env)
               [] name = "semgrep_findings" -> tool_semgrep_findings(args, env, token)
               [] OTHER -> Err(-32601, <<"Tool not found: ", name>>, <<>>)

handle_list_prompts == Ok(Result("ListPromptsResult", <<"write_custom_semgrep_rule">>), <<>>)

\* GetPromptParams.arguments: Option<HashMap<String, String>>: absent, null,
\* or an object all of whose values are strings.
PromptArgumentsOk(a) ==
    \/ a.k \in {"absent", "null"}
    \/ /\ a.k = "obj"
       /\ \A kind \in {a.paths, a.config, a.rule, a.code_files, a.code,
                        a.language, a.repos} : kind \in {"absent", "str"}

\* a mutant of PromptArgument: a missing argument is rendered as a placeholder
PromptArgument_Placeholder(a, kind, text) ==
    IF a.k = "obj" /\ kind = "str" THEN text ELSE "undefined"

\* args.get(key).unwrap_or(&"".to_string()), the value as a token
PromptArgument(a, kind, text) == IF a.k = "obj" /\ kind = "str" THEN text ELSE ""

handle_get_prompt(params) ==
    LET bad == FromValueError(params, params.name)
        a == params.arguments
        code == PromptArgument(a, a.code, "code text")
        lang == PromptArgument(a, a.language, "language text")
    IN  IF bad # <<>> THEN Err(-32602, <<"Invalid params: ">> \o bad, <<>>)
        ELSE IF ~PromptArgumentsOk(a)
        THEN Err(-32602, <<"Invalid params: ", "invalid type">>, <<>>)
        ELSE IF params.name.s = "write_custom_semgrep_rule"
        THEN Ok(Result("GetPromptResult",
                       <<"Write custom rule", "user",
                         "You are an expert at writing Semgrep rules. Code to analyze:",
                         lang, code, "Language: ", lang,
                         "Create a Semgrep rule to detect issues in this code.">>),
                <<>>)
        ELSE Err(-32601, <<"Prompt not found">>, <<>>)

handle_list_resources == Ok(Result("ListResourcesResult", <<"semgrep://rule/schema">>), <<>>)

SchemaUrl ==
    "https://raw.githubusercontent.com/semgrep/semgrep-interfaces/refs/heads/main/rule_schema_v1.yaml"

\* A uri is kept as the sequence uri.split('/') yields, "semgrep://rule/x/yaml"
\* as <<"semgrep:", "", "rule", "x", "yaml">>; no segment holds a '/'.
RECURSIVE JoinUri(_)
JoinUri(parts) ==
    IF Len(parts) = 0 THEN ""
    ELSE IF Len(parts) = 1 THEN parts[1]
    ELSE parts[1] \o "/" \o JoinUri(Tail(parts))

SchemaUri == <<"semgrep:", "", "rule", "schema">>
\* uri.starts_with("semgrep://rule/")
StartsWithRule(parts) ==
    Len(parts) >= 4 /\ parts[1] = "semgrep:" /\ parts[2] = "" /\ parts[3] = "rule"
\* uri.ends_with("/yaml")
EndsWithYaml(parts) == Len(parts) >= 2 /\ parts[Len(parts)] = "yaml"

ReadResourceResult(uri, text) ==
    Result("ReadResourceResult", <<JoinUri(uri), "text/plain", text>>)

handle_read_resource(params, env) ==
    LET bad == FromValueError(params, params.uri)
        parts == params.uri.parts
    IN  IF bad # <<>> THEN Err(-32602, <<"Invalid params: ">> \o bad, <<>>)
        ELSE IF parts = SchemaUri
        THEN LET r == fetch_url(SchemaUrl, env) IN
             IF r.ok THEN Ok(ReadResourceResult(parts, r.text), r.calls)
             ELSE internal_error(r.message, r.calls)
        ELSE IF StartsWithRule(parts) /\ EndsWithYaml(parts)
        THEN IF Len(parts) >= 4
             THEN \* rule_id = parts[2], counted from 0
                  LET r == fetch_url("https://semgrep.dev/c/r/" \o parts[3], env) IN
                  IF r.ok THEN Ok(ReadResourceResult(parts, r.text), r.calls)
                  ELSE internal_error(r.message, r.calls)
             ELSE Err(-32602, <<"Invalid resource URI">>, <<>>)
        ELSE Err(-32602, <<"Resource not found">>, <<>>)

\* a mutant of MethodNotFound: the error does not name the method
MethodNotFound_Anonymous(method) == Err(-32601, <<"Method not found">>, <<>>)

\* handler.rs 20-24: the last arm of the match of handle_request
MethodNotFound(method) == Err(-32601, <<"Method not found: ", method>>, <<>>)

handle_request(req, env, token) ==
    CASE req.method = "initialize" -> handle_initialize(req.params, env)
      [] req.method = "tools/list" -> handle_list_tools
      [] req.method = "tools/call" -> handle_call_tool(req.params, env, token)
      [] req.method = "prompts/list" -> handle_list_prompts
      [] req.method = "prompts/get" -> handle_get_prompt(req.params)
      [] req.method = "resources/list" -> handle_list_resources
      [] req.method = "resources/read" -> handle_read_resource(req.params, env)
      [] req.method = "notifications/initialized" -> Ok(NullResult, <<>>)
      [] OTHER -> MethodNotFound(req.method)

(***************************************************************************)
(* Serialize of JsonRpcMessage (untagged: the variant's struct as it is).  *)
(* Response: jsonrpc, id, result.  Error: jsonrpc, id, error; id has no    *)
(* skip_serializing_if, so None is written as null.                        *)
(***************************************************************************)
\* a mutant of to_string: a None id is skipped like params and data are
to_string_IdSkipped(msg) ==
    Object(Str("2.0"), IF msg.id = NoId THEN Absent ELSE EncodeRequestId(msg.id),
           Absent, NoParams, msg.result, EncodeError(msg.error))

to_string(msg) ==
    Object(Str("2.0"), EncodeRequestId(msg.id), Absent, NoParams,
           msg.result, EncodeError(msg.error))

(***************************************************************************)
(* main.rs: the transport loop.                                            *)
(*   state    Reading | Terminated                                         *)
(*   exit     running | ok | error: what main returned                     *)
(*   stdin    open | eof | error: what the last read_line met              *)
(*   stdout   open | error: what the last send_message met                 *)
(*   pc       read: at reader.read_line; handle: inside                    *)
(*            Handler::handle_request; send: inside send_message;          *)
(*            done: main has returned                                      *)
(*   input    the lines read so far, trimmed                               *)
(*   req      the request being handled                                    *)
(*   pending  the message handed to send_message                           *)
(*   output   the lines written and flushed; `of` is the number of the     *)
(*            input line the message answers                               *)
(*   handled  the numbers of the input lines given to handle_request       *)
(*   calls    the collaborator operations performed, with the line number  *)
(*   log      what went to stderr through tracing                          *)
(*   token    whether SEMGREP_APP_TOKEN is set in the environment          *)
(*   probe, answer, phase   the argument and the value of the function a   *)
(*            function-level specification applies                         *)
(***************************************************************************)
VARIABLES state, exit, stdin, stdout, pc, input, req, pending, output, handled, calls, log,
          token, probe, answer, phase

vars == <<state, exit, stdin, stdout, pc, input, req, pending, output, handled, calls, log,
          token, probe, answer, phase>>

NoMessage == Message("None", NoId, "", NoParams, NoResult, NoError)
NoOutcome == Ok(NoResult, <<>>)

Request(id, method, params) ==
    Object(Str("2.0"), id, Str(method), params, NoResult, NoError)
Notification(method, params) ==
    Object(Str("2.0"), Absent, Str(method), params, NoResult, NoError)
CallParams(name, arguments) == Params("obj", name, arguments, NoUri)
UriParams(uri) == Params("obj", Absent, NoArguments, uri)

\* The lines the loop is fed: every kind of line main distinguishes.
LoopLines ==
    {Blank, Garbage, Scalar}
    \cup {Request(Int_(1), m, NoParams) : m \in MethodSet \cup {"Initialize", "foo"}}
    \cup {Request(Str("1"), m, NoParams) : m \in {"tools/list", "foo"}}
    \cup {Request(Int_(2), "tools/call", CallParams(Str(n), NoArguments)) :
             n \in {"get_version", "semgrep_findings", "nope"}}
    \cup {Notification(m, NoParams) :
             m \in {"notifications/initialized", "initialize", "foo"}}
    \cup {Notification("tools/call", CallParams(Str("get_version"), NoArguments)),
          Notification("resources/read", UriParams(Uri(SchemaUri))),
          Object(Str("2.0"), Null, Str("tools/list"), NoParams, NoResult, NoError),
          Object(Str("2.0"), Int_(1), Absent, NoParams, NullResult, NoError),
          Object(Str("2.0"), Int_(1), Absent, NoParams, NoResult, SomeError),
          Object(Str("2.0"), Absent, Absent, NoParams, NoResult, SomeError),
          Object(Absent, Int_(1), Str("tools/list"), NoParams, NoResult, NoError),
          Array(<<Str("2.0"), Int_(1), Str("tools/list"), Null>>)}

\* a mutant of MatchArm: a notification is dispatched like a request
MatchArm_NotificationDispatched(l) ==
    IF l.shape = "blank" THEN "continue"
    ELSE LET msg == JsonRpcMessage(l) IN
         CASE msg.variant \in {"Request", "Notification"} -> "dispatch"
           [] msg.variant = "ParseFailure" -> "parse_error"
           [] OTHER -> "ignore"

\* main.rs 45-99: what main does with a line that was read.
\*   continue     trimmed.is_empty()
\*   dispatch     Ok(JsonRpcMessage::Request)
\*   notify       Ok(JsonRpcMessage::Notification)
\*   ignore       Ok(_): a Response or an Error sent to the server
\*   parse_error  Err(e)
MatchArm(l) ==
    IF l.shape = "blank" THEN "continue"
    ELSE LET msg == JsonRpcMessage(l) IN
         CASE msg.variant = "Request" -> "dispatch"
           [] msg.variant = "Notification" -> "notify"
           [] msg.variant = "ParseFailure" -> "parse_error"
           [] OTHER -> "ignore"

\* a mutant of Reply: the error reply is sent without the request's id
Reply_ErrorWithoutId(id, r) ==
    IF r.ok THEN Message("Response", id, "", NoParams, r.result, NoError)
    ELSE Message("Error", NoId, "", NoParams, NoResult, r.error)

\* main.rs 57-61, 65-69: the reply to a request, from what the handler returned.
Reply(id, r) ==
    IF r.ok THEN Message("Response", id, "", NoParams, r.result, NoError)
    ELSE Message("Error", id, "", NoParams, NoResult, r.error)

\* a mutant of ParseErrorReply: the code of an invalid request
ParseErrorReply_InvalidRequest ==
    Message("Error", NoId, "", NoParams, NoResult,
            JsonRpcError(-32600, <<"Invalid Request">>))

\* main.rs 88-96
ParseErrorReply ==
    Message("Error", NoId, "", NoParams, NoResult,
            JsonRpcError(-32700, <<"Parse error">>))

\* a mutant of AtRead: the next line is read while a reply is being sent
AtRead_Overlapping == state = "Reading" /\ pc \in {"read", "send"}

\* main.rs 38-40: the loop is at read_line only between two iterations.
AtRead == state = "Reading" /\ pc = "read"

Tag(n, ops) == [i \in 1..Len(ops) |-> [of |-> n, op |-> ops[i]]]

LoopInit ==
    /\ state = "Reading"
    /\ exit = "running"
    /\ stdin = "open"
    /\ stdout = "open"
    /\ pc = "read"
    /\ input = <<>>
    /\ req = NoMessage
    /\ pending = NoMessage
    /\ output = <<>>
    /\ handled = {}
    /\ calls = <<>>
    /\ log = <<"Starting semgrep-mcp-rs server...">>

Init ==
    /\ LoopInit
    /\ token \in BOOLEAN
    /\ probe = NoMessage
    /\ answer = NoOutcome
    /\ phase = "loop"

\* a mutant of ReadBlank: the blank line is handed to from_str, which fails
ReadBlank_Parsed(l) ==
    /\ AtRead /\ Len(input) < MaxLines
    /\ MatchArm(l) = "continue"
    /\ input' = Append(input, l)
    /\ log' = Append(log, "Failed to parse JSON")
    /\ pending' = ParseErrorReply
    /\ pc' = "send"
    /\ UNCHANGED <<state, exit, stdin, stdout, req, output, handled, calls, token, probe,
                   answer, phase>>

\* read_line returned a line that is empty after trim(): continue.
ReadBlank(l) ==
    /\ AtRead /\ Len(input) < MaxLines
    /\ MatchArm(l) = "continue"
    /\ input' = Append(input, l)
    /\ UNCHANGED <<state, exit, stdin, stdout, pc, req, pending, output, handled, calls, log,
                   token, probe, answer, phase>>

\* a Request: Handler::handle_request(req) is called and awaited.
ReadRequest(l) ==
    /\ AtRead /\ Len(input) < MaxLines
    /\ MatchArm(l) = "dispatch"
    /\ input' = Append(input, l)
    /\ req' = JsonRpcMessage(l)
    /\ handled' = handled \cup {Len(input) + 1}
    /\ pc' = "handle"
    /\ UNCHANGED <<state, exit, stdin, stdout, pending, output, calls, log, token, probe,
                   answer, phase>>

\* a mutant of ReadNotification: the handler runs, and its result is dropped
ReadNotification_Handled(l) ==
    /\ AtRead /\ Len(input) < MaxLines
    /\ MatchArm(l) = "notify"
    /\ input' = Append(input, l)
    /\ handled' = handled \cup {Len(input) + 1}
    /\ \E env \in LoopEnvs :
          calls' = calls \o Tag(Len(input) + 1,
                                handle_request(JsonRpcMessage(l), env, token).calls)
    /\ UNCHANGED <<state, exit, stdin, stdout, pc, req, pending, output, log,
                   token, probe, answer, phase>>

\* a Notification: logged when it is notifications/initialized, no reply.
ReadNotification(l) ==
    /\ AtRead /\ Len(input) < MaxLines
    /\ MatchArm(l) = "notify"
    /\ input' = Append(input, l)
    /\ log' = IF JsonRpcMessage(l).method = "notifications/initialized"
              THEN Append(log, "Client initialized notification received")
              ELSE log
    /\ UNCHANGED <<state, exit, stdin, stdout, pc, req, pending, output, handled, calls,
                   token, probe, answer, phase>>

\* a Response or an Error sent to the server: ignored.
ReadIgnored(l) ==
    /\ AtRead /\ Len(input) < MaxLines
    /\ MatchArm(l) = "ignore"
    /\ input' = Append(input, l)
    /\ UNCHANGED <<state, exit, stdin, stdout, pc, req, pending, output, handled, calls, log,
                   token, probe, answer, phase>>

\* a mutant of ReadMalformed: the parse error is returned from main
ReadMalformed_Fatal(l) ==
    /\ AtRead /\ Len(input) < MaxLines
    /\ MatchArm(l) = "parse_error"
    /\ input' = Append(input, l)
    /\ log' = Append(log, "Failed to parse JSON")
    /\ state' = "Terminated"
    /\ exit' = "error"
    /\ pc' = "done"
    /\ UNCHANGED <<stdin, stdout, req, pending, output, handled, calls, token,
                   probe, answer, phase>>

\* from_str failed: the parse error reply is built and sent.
ReadMalformed(l) ==
    /\ AtRead /\ Len(input) < MaxLines
    /\ MatchArm(l) = "parse_error"
    /\ input' = Append(input, l)
    /\ log' = Append(log, "Failed to parse JSON")
    /\ pending' = ParseErrorReply
    /\ pc' = "send"
    /\ UNCHANGED <<state, exit, stdin, stdout, req, output, handled, calls, token, probe,
                   answer, phase>>

\* a mutant of Eof: continue instead of break
Eof_Continues ==
    /\ AtRead
    /\ stdin' = "eof"
    /\ UNCHANGED <<state, exit, stdout, pc, input, req, pending, output,
                   handled, calls, log, token, probe, answer, phase>>

\* bytes_read == 0: break, and main returns Ok(()).
Eof ==
    /\ AtRead
    /\ state' = "Terminated"
    /\ exit' = "ok"
    /\ stdin' = "eof"
    /\ pc' = "done"
    /\ UNCHANGED <<stdout, input, req, pending, output, handled, calls, log, token,
                   probe, answer, phase>>

\* read_line(..).await? returned Err: main returns the error.  The reader
\* fails on an I/O error and on bytes that are not UTF-8; such bytes never
\* become a line.
ReadError ==
    /\ AtRead
    /\ state' = "Terminated"
    /\ exit' = "error"
    /\ stdin' = "error"
    /\ pc' = "done"
    /\ UNCHANGED <<stdout, input, req, pending, output, handled, calls, log, token,
                   probe, answer, phase>>

\* a mutant of Dispatch: a session, in which every method but initialize is
\* refused until an initialize request was handled
Dispatch_RequiresInitialize(env) ==
    /\ state = "Reading" /\ pc = "handle"
    /\ LET initialized ==
               \E i \in 1..Len(input) :
                  /\ i \in handled
                  /\ JsonRpcMessage(input[i]).method = "initialize"
           r == IF initialized THEN handle_request(req, env, token)
                ELSE Err(-32002, <<"Server not initialized">>, <<>>)
       IN  /\ pending' = Reply(req.id, r)
           /\ calls' = calls \o Tag(Len(input), r.calls)
    /\ pc' = "send"
    /\ UNCHANGED <<state, exit, stdin, stdout, input, req, output, handled, log, token, probe,
                   answer, phase>>

\* handle_request returns: the reply is built with the request's id.
Dispatch(env) ==
    /\ state = "Reading" /\ pc = "handle"
    /\ LET r == handle_request(req, env, token) IN
         /\ pending' = Reply(req.id, r)
         /\ calls' = calls \o Tag(Len(input), r.calls)
    /\ pc' = "send"
    /\ UNCHANGED <<state, exit, stdin, stdout, input, req, output, handled, log, token, probe,
                   answer, phase>>

\* send_message: to_string, write_all twice and flush all succeed.
SendOk ==
    /\ state = "Reading" /\ pc = "send"
    /\ output' = Append(output, [of |-> Len(input), line |-> to_string(pending)])
    /\ pending' = NoMessage
    /\ req' = NoMessage
    /\ pc' = "read"
    /\ UNCHANGED <<state, exit, stdin, stdout, input, handled, calls, log, token, probe,
                   answer, phase>>

\* a mutant of SendError: the error is dropped and the loop reads on
SendError_Ignored ==
    /\ state = "Reading" /\ pc = "send"
    /\ stdout' = "error"
    /\ pending' = NoMessage
    /\ req' = NoMessage
    /\ pc' = "read"
    /\ UNCHANGED <<state, exit, stdin, input, output, handled, calls, log,
                   token, probe, answer, phase>>

\* send_message: a write_all or the flush returned Err, and main returns it.
SendError ==
    /\ state = "Reading" /\ pc = "send"
    /\ state' = "Terminated"
    /\ exit' = "error"
    /\ stdout' = "error"
    /\ pc' = "done"
    /\ UNCHANGED <<stdin, input, req, pending, output, handled, calls, log, token,
                   probe, answer, phase>>

Next ==
    \/ \E l \in LoopLines : ReadBlank(l)
    \/ \E l \in LoopLines : ReadRequest(l)
    \/ \E l \in LoopLines : ReadNotification(l)
    \/ \E l \in LoopLines : ReadIgnored(l)
    \/ \E l \in LoopLines : ReadMalformed(l)
    \/ Eof
    \/ ReadError
    \/ \E env \in LoopEnvs : Dispatch(env)
    \/ SendOk
    \/ SendError

Spec == Init /\ [][Next]_vars

\* The reader returns, the collaborators return and the writes complete.
FairSpec == Spec /\ WF_vars(Next)

loopVars == <<state, exit, stdin, stdout, pc, input, req, pending, output,
              handled, calls, log>>

(***************************************************************************)
(* handle_request as a function: a request is drawn, the handler is called *)
(* once with what the collaborators answer, and its value is kept.         *)
(***************************************************************************)
StringKinds == {"absent", "str", "other"}
ListKinds == {"absent", "strs", "other"}
ProbeArguments ==
    {NoArguments, NullArguments, [NoArguments EXCEPT !.k = "other"]}
    \cup [k : {"obj"}, paths : ListKinds, config : StringKinds,
          rule : StringKinds, code_files : ListKinds, code : StringKinds,
          language : StringKinds, repos : ListKinds]
ProbeNames ==
    {Absent, Null, Int_(7)}
    \cup {Str(n) : n \in CallToolArms \cup {"nope", "Get_Version",
                                            "write_custom_semgrep_rule"}}
ProbeUris ==
    {NoUri, BadUri}
    \cup {Uri(parts) : parts \in
            {SchemaUri,
             <<"semgrep:", "", "rule", "my-rule", "yaml">>,
             <<"semgrep:", "", "rule", "other-rule", "yaml">>,
             <<"semgrep:", "", "rule", "a", "b", "yaml">>,
             <<"semgrep:", "", "rule", "yaml">>,
             <<"semgrep:", "", "rule", "bad">>,
             <<"semgrep:", "", "unknown">>,
             <<"https:", "", "example.com", "yaml">>}}
ProbeParams ==
    {NoParams, ScalarParams, EmptyParams}
    \cup {CallParams(n, a) : n \in ProbeNames, a \in ProbeArguments}
    \cup {UriParams(u) : u \in ProbeUris}
ProbeRequests ==
    {Message("Request", RequestId("Number", "", 1), m, p, NoResult, NoError) :
        m \in {"tools/call", "prompts/get", "resources/read"}, p \in ProbeParams}
    \cup {Message("Request", RequestId("Number", "", 1), m, p, NoResult, NoError) :
        m \in MethodSet \cup {"Initialize", "foo"},
        p \in {NoParams, ScalarParams, EmptyParams}}

HandlerInit ==
    /\ LoopInit
    /\ token \in BOOLEAN
    /\ probe \in ProbeRequests
    /\ answer = NoOutcome
    /\ phase = "call"

Handle(env) ==
    /\ phase = "call"
    /\ answer' = handle_request(probe, env, token)
    /\ phase' = "returned"
    /\ UNCHANGED <<loopVars, token, probe>>

HandlerNext == \E env \in LoopEnvs : Handle(env)

HandlerSpec == HandlerInit /\ [][HandlerNext]_vars

(***************************************************************************)
(* serde_json::from_str::<JsonRpcMessage> as a function: a line is drawn   *)
(* and decoded.                                                            *)
(***************************************************************************)
ProbeValues == {Null, Int_(1), Num, Str("2.0"), Str("tools/list"), ObjV, ErrObjV}
ProbeArrays == UNION {[1..n -> ProbeValues] : n \in 0..MaxElems}
ProbeLines ==
    {Blank, Garbage, Scalar}
    \cup {Array(e) : e \in ProbeArrays}
    \cup {Object(j, i, m, p, r, e) :
            j \in {Absent, Str("2.0"), Str("1.0"), Num},
            i \in {Absent, Null, Int_(1), Str("a"), Num, Bool},
            m \in {Absent, Null, Str("tools/list"), Str("foo")},
            p \in {NoParams, NullParams, EmptyParams},
            r \in {NoResult, NullResult, Result("obj", <<>>)},
            e \in {NoError, BadError, SomeError}}

DecodeInit ==
    /\ LoopInit
    /\ token = FALSE
    /\ probe \in ProbeLines
    /\ answer = NoMessage
    /\ phase = "line"

Decode ==
    /\ phase = "line"
    /\ probe.shape # "blank"
    /\ answer' = JsonRpcMessage(probe)
    /\ phase' = "decoded"
    /\ UNCHANGED <<loopVars, token, probe>>

DecodeNext == Decode

DecodeSpec == DecodeInit /\ [][DecodeNext]_vars

(***************************************************************************)
(* serde_json::to_string and from_str after one another: a Response or an  *)
(* Error the program holds is written as a line, and the line is read.     *)
(* The program holds the messages main builds (main.rs 57-69, 88-96) and   *)
(* those it decodes from a line.                                           *)
(***************************************************************************)
RoundTripIds ==
    {RequestId("Number", "", n) : n \in {-1, 0, 1}}
    \cup {RequestId("String", s, 0) : s \in {"", "1", "a"}}
RoundTripOutcomes ==
    {Ok(NullResult, <<>>), handle_list_tools, handle_list_prompts,
     Ok(CallToolResult("text"), <<>>), MethodNotFound("foo"),
     Err(-32602, <<"Invalid paths">>, <<>>), internal_error(<<"failed">>, <<>>)}
RoundTripLines ==
    {Object(Str("2.0"), i, Absent, NoParams, r, NoError) :
        i \in {Int_(1), Int_(-1), Str("a")},
        r \in {NullResult, Result("obj", <<>>), Result("str", <<"text">>)}}
    \cup {Object(Str("2.0"), i, Absent, NoParams, NoResult, WireError(c, <<"peer error">>, d)) :
            i \in {Absent, Null, Int_(1), Str("a")},
            c \in {-32700, 1},
            d \in {"absent", "null", "value"}}
RoundTripMessages ==
    {Reply(id, r) : id \in RoundTripIds, r \in RoundTripOutcomes}
    \cup {ParseErrorReply}
    \cup {JsonRpcMessage(l) : l \in RoundTripLines}

RoundTripInit ==
    /\ LoopInit
    /\ token = FALSE
    /\ probe \in RoundTripMessages
    /\ answer = NoMessage
    /\ phase = "message"

\* serde_json::to_string(msg), as in send_message
Encode ==
    /\ phase = "message"
    /\ answer' = to_string(probe)
    /\ phase' = "encoded"
    /\ UNCHANGED <<loopVars, token, probe>>

\* serde_json::from_str::<JsonRpcMessage> of the line written
ReadBack ==
    /\ phase = "encoded"
    /\ answer' = JsonRpcMessage(answer)
    /\ phase' = "read back"
    /\ UNCHANGED <<loopVars, token, probe>>

RoundTripNext == Encode \/ ReadBack

RoundTripSpec == RoundTripInit /\ [][RoundTripNext]_vars

(***************************************************************************)
(* initialize as a function of its params and of what the version probe    *)
(* meets: the request is drawn with the environment, and handled once.     *)
(***************************************************************************)
InitializeProbes ==
    [params : {NoParams, NullParams, EmptyParams, ScalarParams}, env : Envs]

InitializeInit ==
    /\ LoopInit
    /\ token \in BOOLEAN
    /\ probe \in InitializeProbes
    /\ answer = NoOutcome
    /\ phase = "initialize"

Initialize ==
    /\ phase = "initialize"
    /\ answer' = handle_request(
                     Message("Request", RequestId("Number", "", 1), "initialize",
                             probe.params, NoResult, NoError),
                     probe.env, token)
    /\ phase' = "initialized"
    /\ UNCHANGED <<loopVars, token, probe>>

InitializeNext == Initialize

InitializeSpec == InitializeInit /\ [][InitializeNext]_vars

(***************************************************************************)
(* semgrep_wrapper.rs as functions of what the subprocess and the          *)
(* temporary file do: one of the five invocations is drawn with the        *)
(* environment, and made once.                                             *)
(***************************************************************************)
Invocations ==
    {"get_version", "get_supported_languages", "scan", "scan_with_custom_rule",
     "dump_ast"}
SemgrepWrapper(invocation, env) ==
    CASE invocation = "get_version" -> get_version(env)
      [] invocation = "get_supported_languages" -> get_supported_languages(env)
      [] invocation = "scan" -> scan(env)
      [] invocation = "scan_with_custom_rule" -> scan_with_custom_rule(env)
      [] OTHER -> dump_ast(env)

SubprocessInit ==
    /\ LoopInit
    /\ token = FALSE
    /\ probe \in [invocation : Invocations, env : Envs]
    /\ answer = CollabOk("", <<>>)
    /\ phase = "invoke"

Invoke ==
    /\ phase = "invoke"
    /\ answer' = SemgrepWrapper(probe.invocation, probe.env)
    /\ phase' = "invoked"
    /\ UNCHANGED <<loopVars, token, probe>>

SubprocessNext == Invoke

SubprocessSpec == SubprocessInit /\ [][SubprocessNext]_vars

(***************************************************************************)
(* The semgrep_findings arm as a function of its arguments as values, of   *)
(* the token and of what the HTTP API answers: the call is drawn, and made *)
(* once; the query map handed to get_findings is kept with the outcome.    *)
(***************************************************************************)
QueryKeys == {"repos", "status"}
ReposElements == {Str("a"), Str("b"), Int_(1), Null}
ReposLists == UNION {[1..n -> ReposElements] : n \in 0..MaxRepos}
ScalarMembers == {Member(Null), Member(Str("open")), Member(Int_(1))}
ReposValues == ScalarMembers \cup {List(elems) : elems \in ReposLists}
StatusValues == ScalarMembers \cup {List(<<Str("a"), Str("b")>>)}
FindingsMembers ==
    {m \in UNION {[keys -> ReposValues] : keys \in SUBSET QueryKeys} :
        "status" \in DOMAIN m => m["status"] \in StatusValues}
ProbeFindings ==
    {FindingsArguments(k, EmptyQuery) : k \in {"absent", "null", "other"}}
    \cup {FindingsArguments("obj", m) : m \in FindingsMembers}

\* the arguments by the kinds of their members
KindsOf(arguments) ==
    IF arguments.k # "obj" THEN [NoArguments EXCEPT !.k = arguments.k]
    ELSE LET obj == arguments.members IN
         [EmptyArguments EXCEPT !.repos =
             IF "repos" \notin DOMAIN obj THEN "absent"
             ELSE IF obj["repos"].arr
                     /\ \A i \in 1..Len(obj["repos"].elems) : obj["repos"].elems[i].k = "str"
                  THEN "strs"
                  ELSE "other"]

FindingsInit ==
    /\ LoopInit
    /\ token \in BOOLEAN
    /\ probe \in [arguments : ProbeFindings, env : LoopEnvs]
    /\ answer = [outcome |-> NoOutcome, handed |-> FALSE, query |-> EmptyQuery]
    /\ phase = "findings"

CallFindings ==
    /\ phase = "findings"
    /\ answer' = [outcome |-> tool_semgrep_findings(KindsOf(probe.arguments),
                                                    probe.env, token),
                  handed |-> token,
                  query |-> IF token THEN findings_query(probe.arguments)
                            ELSE EmptyQuery]
    /\ phase' = "queried"
    /\ UNCHANGED <<loopVars, token, probe>>

FindingsNext == CallFindings

FindingsSpec == FindingsInit /\ [][FindingsNext]_vars

(***************************************************************************)
(* What the properties below speak of.                                     *)
(***************************************************************************)
\* the output lines that answer input line i
Replies(i) == {j \in 1..Len(output) : output[j].of = i}
\* the collaborator operations performed for input line i
CallsOf(i) == {j \in 1..Len(calls) : calls[j].of = i}
\* the loop is done with input line i: it is back at read_line, or main
\* returned from there
Settled(i) ==
    \/ i < Len(input)
    \/ i = Len(input) /\ pc = "read"
    \/ i = Len(input) /\ pc = "done" /\ stdout = "open"
\* the id member as it stands on an input line
WireId(l) == IF l.shape = "array" THEN l.elems[2] ELSE l.id
\* what an input line decodes to
VariantOf(l) == IF l.shape = "blank" THEN "Blank" ELSE JsonRpcMessage(l).variant
Contains(message, piece) == \E k \in 1..Len(message) : message[k] = piece

(***************************************************************************)
(* C1.  Every input line that decodes as a Request gets exactly one        *)
(* written message, never two and, once the loop is done with the line,    *)
(* never none; the message is a Response or an ErrorResponse (one of the   *)
(* two, as the written line has a result member or an error member, not    *)
(* both) and its id member equals the request's id member, an integer      *)
(* staying an integer and a string a string.  A line whose write failed    *)
(* ends the run (C7) and is the one case without a written message.        *)
(***************************************************************************)
C1_OneReplyPerRequest ==
    \A i \in 1..Len(input) :
        VariantOf(input[i]) = "Request" =>
            /\ Cardinality(Replies(i)) <= 1
            /\ Settled(i) => Cardinality(Replies(i)) = 1
            /\ \A j \in Replies(i) :
                 LET w == output[j].line IN
                 /\ w.id = WireId(input[i])
                 /\ w.id.k \in {"int", "str"}
                 /\ (w.result.k # "absent") # (w.error.k # "absent")
                 /\ JsonRpcMessage(w).variant \in {"Response", "Error"}

\* Two requests after one another, one with the string id "1" answered by a
\* Response, one with the integer id 1 answered by an ErrorResponse.
C1_Witness ==
    /\ Len(input) = 2 /\ Len(output) = 2
    /\ VariantOf(input[1]) = "Request" /\ VariantOf(input[2]) = "Request"
    /\ output[1].line.id = Str("1") /\ output[1].line.result.k # "absent"
    /\ output[2].line.id = Int_(1) /\ output[2].line.error.k = "err"

(***************************************************************************)
(* C2.  A line that decodes as a Notification, whatever its method, is     *)
(* never answered: the step that reads it writes nothing, builds no        *)
(* message and leaves the loop in Reading at read_line, and no output line *)
(* ever answers it.                                                        *)
(***************************************************************************)
C2_NotificationSilent ==
    /\ [](\A i \in 1..Len(input) :
            VariantOf(input[i]) = "Notification" => Replies(i) = {})
    /\ [][(Len(input') = Len(input) + 1
            /\ VariantOf(input'[Len(input')]) = "Notification")
          => (output' = output /\ pending' = NoMessage
              /\ state' = "Reading" /\ pc' = "read")]_vars

\* A notification whose method would fail as a request ("foo") and one
\* whose method would call a collaborator (tools/call) were read, and
\* nothing was written.
C2_Witness ==
    /\ Len(input) = 2 /\ output = <<>> /\ state = "Reading" /\ pc = "read"
    /\ VariantOf(input[1]) = "Notification" /\ input[1].method = Str("foo")
    /\ VariantOf(input[2]) = "Notification" /\ input[2].method = Str("tools/call")

(***************************************************************************)
(* C3.  A non-blank line that decodes as none of the four variants gets    *)
(* exactly one written message, an ErrorResponse with code -32700 and no   *)
(* correlation identifier (it decodes back to id None), and is never given *)
(* to handle_request nor to a collaborator.                                *)
(***************************************************************************)
C3_ParseError ==
    \A i \in 1..Len(input) :
        VariantOf(input[i]) = "ParseFailure" =>
            /\ Cardinality(Replies(i)) <= 1
            /\ Settled(i) => Cardinality(Replies(i)) = 1
            /\ i \notin handled
            /\ CallsOf(i) = {}
            /\ \A j \in Replies(i) :
                 LET m == JsonRpcMessage(output[j].line) IN
                 /\ m.variant = "Error"
                 /\ m.error.code = -32700
                 /\ m.id = NoId

\* Text that is no JSON and a JSON object without jsonrpc were both read
\* and answered.
C3_Witness ==
    /\ Len(input) = 2 /\ Len(output) = 2
    /\ input[1] = Garbage
    /\ input[2].shape = "object" /\ VariantOf(input[2]) = "ParseFailure"
    /\ output[2].of = 2 /\ output[2].line.error.code = -32700

(***************************************************************************)
(* C4.  The loop is sequential.  A line that needs a reply (a request or a *)
(* malformed line) and has none written yet can only be the line read      *)
(* last, so at most one is in flight; none is in flight when the loop is   *)
(* at read_line; and the replies stand on the output in the order in which *)
(* their lines were read.                                                  *)
(***************************************************************************)
NeedsReply(l) == VariantOf(l) \in {"Request", "ParseFailure"}
InFlight == {i \in 1..Len(input) : NeedsReply(input[i]) /\ Replies(i) = {}}

C4_Sequential ==
    /\ InFlight \subseteq {Len(input)}
    /\ (state = "Reading" /\ pc = "read") => InFlight = {}
    /\ (pc \in {"handle", "send"}) => InFlight = {Len(input)}
    /\ \A j, k \in 1..Len(output) : j < k => output[j].of < output[k].of

\* The second of two lines that need a reply is in flight while the first
\* is answered.
C4_Witness ==
    /\ Len(input) = 2 /\ pc = "handle"
    /\ NeedsReply(input[1]) /\ Replies(1) = {1} /\ InFlight = {2}

(***************************************************************************)
(* C5.  No input line ends the loop.  The step that reads a line, of any   *)
(* kind, and the step in which handle_request returns, with a result or    *)
(* with any RpcError, leave the loop in Reading; the loop leaves Reading   *)
(* only in a step that reads no line and in which read_line met            *)
(* end-of-stream or an error, or send_message met an error.                *)
(***************************************************************************)
C5_OnlyIoTerminates ==
    /\ [][Len(input') # Len(input) => state' = "Reading"]_vars
    /\ [][pc = "handle" => state' = "Reading"]_vars
    /\ [][(state = "Reading" /\ state' = "Terminated")
          => /\ input' = input
             /\ \/ pc = "read" /\ stdin' \in {"eof", "error"}
                \/ pc = "send" /\ stdout' = "error"]_vars

\* After a malformed line, a request that failed with an RpcError was read
\* and answered, and the loop reads on.
C5_Witness ==
    /\ Len(input) = 2 /\ Len(output) = 2 /\ state = "Reading" /\ pc = "read"
    /\ VariantOf(input[1]) = "ParseFailure"
    /\ VariantOf(input[2]) = "Request" /\ output[2].line.error.code = -32601

(***************************************************************************)
(* C6.  The loop starts in Reading.  End-of-stream moves it to Terminated  *)
(* with a success result; once Terminated, nothing more is written.  With  *)
(* a finite input, collaborators that return and a reader and a writer     *)
(* that return (FairSpec), the loop reaches Terminated, and when it does   *)
(* with no write failure every request read has been answered.             *)
(***************************************************************************)
C6_Termination ==
    /\ state = "Reading"
    /\ [](stdin = "eof" => (state = "Terminated" /\ exit = "ok"))
    /\ [][state = "Terminated" => (output' = output /\ state' = "Terminated")]_vars
    /\ <>(state = "Terminated")
    /\ []((state = "Terminated" /\ stdout = "open") =>
            \A i \in 1..Len(input) :
                VariantOf(input[i]) = "Request" => Replies(i) # {})

\* End-of-stream after two answered requests.
C6_Witness ==
    /\ state = "Terminated" /\ exit = "ok" /\ stdin = "eof"
    /\ Len(input) = 2 /\ Len(output) = 2
    /\ VariantOf(input[1]) = "Request" /\ VariantOf(input[2]) = "Request"

(***************************************************************************)
(* C7.  A failed send_message and a failed read_line are fatal: the        *)
(* failure and the termination with an error are one step, and from then   *)
(* on no line is read, none is given to handle_request, no collaborator is *)
(* called and nothing is written (nothing is retried).                     *)
(***************************************************************************)
C7_IoFailureFatal ==
    /\ []((stdin = "error" \/ stdout = "error")
            => (state = "Terminated" /\ exit = "error" /\ pc = "done"))
    /\ [][state = "Terminated"
          => (input' = input /\ output' = output /\ handled' = handled
              /\ calls' = calls /\ pending' = pending
              /\ state' = "Terminated" /\ exit' = exit)]_vars

\* The write of the reply to the first line failed: the run is over with
\* one line read and nothing written.
C7_Witness ==
    /\ stdout = "error" /\ state = "Terminated" /\ exit = "error"
    /\ Len(input) = 1 /\ output = <<>> /\ pending # NoMessage

(***************************************************************************)
(* C8.  Decoding goes by the presence of members alone: a line that has    *)
(* both a method and an id member is a Request.  Stated here for the lines *)
(* the claim's table makes a Request without any doubt about the other     *)
(* members: a JSON object whose jsonrpc and method are strings and that    *)
(* has an id member, of whatever JSON type.                                *)
(***************************************************************************)
C8_MethodAndIdIsRequest ==
    (/\ phase = "decoded"
     /\ probe.shape = "object"
     /\ probe.jsonrpc.k = "str"
     /\ probe.method.k = "str"
     /\ probe.id.k # "absent")
    => answer.variant = "Request"

(***************************************************************************)
(* C9.  A request whose method is none of the eight of the method table,   *)
(* compared as exact strings, is answered with an ErrorResponse of code    *)
(* -32601 whose message holds the method name, and no collaborator is      *)
(* called for it.                                                          *)
(***************************************************************************)
UnknownMethod(l) ==
    VariantOf(l) = "Request" /\ JsonRpcMessage(l).method \notin MethodSet

C9_MethodNotFound ==
    \A i \in 1..Len(input) :
        UnknownMethod(input[i]) =>
            /\ CallsOf(i) = {}
            /\ (i = Len(input) /\ pc = "send") =>
                   /\ pending.variant = "Error"
                   /\ pending.error.code = -32601
                   /\ Contains(pending.error.message, JsonRpcMessage(input[i]).method)
            /\ \A j \in Replies(i) :
                 LET w == output[j].line IN
                 /\ w.error.k = "err" /\ w.result.k = "absent"
                 /\ w.error.code = -32601
                 /\ Contains(w.error.message, JsonRpcMessage(input[i]).method)

\* "Initialize", which differs from a registered method by case only, was
\* answered with method-not-found.
C9_Witness ==
    /\ Len(output) >= 1
    /\ input[1].method = Str("Initialize") /\ VariantOf(input[1]) = "Request"
    /\ output[1].of = 1 /\ output[1].line.error.code = -32601

(***************************************************************************)
(* C10.  tools/call whose params give no name, or a name that is no        *)
(* string, fails with -32602; with a name that is none of the six tools    *)
(* tools/list names it fails with -32601; in both cases no collaborator    *)
(* operation (subprocess, temporary file, HTTP request, token lookup) is   *)
(* performed.  Only a name of the six reaches a tool handler: a call that  *)
(* performs a collaborator operation has one, and a call that has one      *)
(* fails neither for its name nor for the shape of its params.             *)
(***************************************************************************)
RegisteredTools == {ToolNames[i] : i \in 1..Len(ToolNames)}

C10_CallToolName ==
    (phase = "returned" /\ probe.method = "tools/call") =>
        LET p == probe.params
            named == p.k = "obj" /\ p.name.k = "str"
            known == named /\ p.name.s \in RegisteredTools
            message == answer.error.message
        IN  /\ ~named =>
                 (~answer.ok /\ answer.error.code = -32602 /\ answer.calls = <<>>)
            /\ (named /\ ~known) =>
                 (~answer.ok /\ answer.error.code = -32601 /\ answer.calls = <<>>)
            /\ answer.calls # <<>> => known
            /\ known =>
                 \/ answer.ok
                 \/ /\ answer.error.code # -32601
                    /\ message[1] \notin {"Tool not found: ", "Invalid params: "}

\* A call whose name is a number, with arguments a scan would accept,
\* failed with invalid-params before anything was looked up or started.
C10_Witness ==
    /\ phase = "returned" /\ probe.method = "tools/call" /\ token
    /\ probe.params.name = Int_(7) /\ probe.params.arguments.paths = "strs"
    /\ ~answer.ok /\ answer.error.code = -32602 /\ answer.calls = <<>>

(***************************************************************************)
(* What the properties of the handlers speak of.                           *)
(***************************************************************************)
\* handle_request returned from a tools/call whose params name the tool
CalledTool(name) ==
    /\ phase = "returned" /\ probe.method = "tools/call"
    /\ probe.params.k = "obj" /\ probe.params.name = Str(name)
\* the kind of a member of the arguments of the call: a member of something
\* that is no object is missing
ArgumentKind(member) ==
    IF probe.params.arguments.k = "obj" THEN member ELSE "absent"
InvalidParams == ~answer.ok /\ answer.error.code = -32602
\* the subprocess, temporary file and HTTP operations performed
Operations(ops) == SelectSeq(ops, LAMBDA op : op # "env SEMGREP_APP_TOKEN")

(***************************************************************************)
(* C11.  tools/call of semgrep_scan whose arguments have no paths member   *)
(* (an empty object, or no arguments at all), or whose paths is no array   *)
(* of strings, fails with -32602 and a message that names the paths, and   *)
(* the scan is not started.                                                *)
(***************************************************************************)
C11_ScanRequiresPaths ==
    (CalledTool("semgrep_scan")
     /\ ArgumentKind(probe.params.arguments.paths) # "strs")
    => /\ InvalidParams
       /\ answer.error.message = <<"Invalid paths">>
       /\ answer.calls = <<>>

(***************************************************************************)
(* C12.  tools/call of semgrep_scan_with_custom_rule needs rule, a string, *)
(* and code_files, an array of strings: when either is missing or of       *)
(* another type the call fails with -32602, no rule file is written and no *)
(* subprocess is started.                                                  *)
(***************************************************************************)
C12_CustomRuleRequiresBoth ==
    (CalledTool("semgrep_scan_with_custom_rule")
     /\ \/ ArgumentKind(probe.params.arguments.rule) # "str"
        \/ ArgumentKind(probe.params.arguments.code_files) # "strs")
    => /\ InvalidParams
       /\ answer.calls = <<>>

(***************************************************************************)
(* C13.  resources/read of a uri that is not fetched: a uri that starts    *)
(* with semgrep://rule/ and is neither semgrep://rule/schema nor of the    *)
(* shape semgrep://rule/{ruleId}/yaml (one segment between the prefix and  *)
(* /yaml) fails with -32602; a uri that does not start with                *)
(* semgrep://rule/ fails with -32601; neither performs an HTTP request.    *)
(***************************************************************************)
ReadUri ==
    /\ phase = "returned" /\ probe.method = "resources/read"
    /\ probe.params.k = "obj" /\ probe.params.uri.k = "str"
\* semgrep://rule/{ruleId}/yaml: five pieces between the slashes
RuleYamlShape(parts) ==
    Len(parts) = 5 /\ StartsWithRule(parts) /\ parts[5] = "yaml"

C13_ReadResourceClassification ==
    ReadUri =>
        LET parts == probe.params.uri.parts IN
        /\ (StartsWithRule(parts) /\ parts # SchemaUri /\ ~RuleYamlShape(parts))
              => (InvalidParams /\ answer.calls = <<>>)
        /\ ~StartsWithRule(parts)
              => (~answer.ok /\ answer.error.code = -32601 /\ answer.calls = <<>>)

(***************************************************************************)
(* C14.  resources/read of semgrep://rule/{ruleId}/yaml performs one HTTP  *)
(* request, for https://semgrep.dev/c/r/{ruleId} with the ruleId of the    *)
(* uri, so that two rule ids are fetched from two URLs.                    *)
(***************************************************************************)
C14_FetchesOwnRule ==
    (ReadUri /\ RuleYamlShape(probe.params.uri.parts))
    => answer.calls = <<"GET https://semgrep.dev/c/r/" \o probe.params.uri.parts[4]>>

(***************************************************************************)
(* C15.  tools/call of semgrep_findings without SEMGREP_APP_TOKEN in the   *)
(* environment fails with -32603 and the message "SEMGREP_APP_TOKEN not    *)
(* set", whatever the arguments member is (missing, null, no object, an    *)
(* object with members of any type), and performs no HTTP request; the     *)
(* failure is never -32602.                                                *)
(***************************************************************************)
C15_TokenAbsent ==
    (CalledTool("semgrep_findings") /\ ~token)
    => /\ ~answer.ok
       /\ answer.error = JsonRpcError(-32603, <<"SEMGREP_APP_TOKEN not set">>)
       /\ Operations(answer.calls) = <<>>

\* Without the token, a call whose repos member is no array failed with
\* the internal error.
C15_Witness ==
    /\ CalledTool("semgrep_findings") /\ ~token
    /\ probe.params.arguments.k = "obj" /\ probe.params.arguments.repos = "other"
    /\ ~answer.ok /\ answer.error.code = -32603

(***************************************************************************)
(* C16.  When the collaborator a tool handler or a resource read reaches   *)
(* fails (the subprocess cannot be started, exits non-zero with nothing on *)
(* stdout, writes what cannot be parsed; a temporary file cannot be made   *)
(* or written; an HTTP request fails, is answered with an error status or  *)
(* an unreadable body; there is no deployment), the handler returns an     *)
(* error of code -32603 whose message is the collaborator's message, main  *)
(* frames it as an ErrorResponse with the request's id, and the operations *)
(* performed are those of one run of the collaborator, none twice.         *)
(***************************************************************************)
\* the URLs a resource read may ask for
FetchUrls ==
    {SchemaUrl}
    \cup UNION {{"https://semgrep.dev/c/r/" \o u.parts[i] : i \in 1..Len(u.parts)} :
                 u \in ProbeUris}
\* the collaborator a request delegates to, as it answers in env: the one of
\* the tool named, or fetch_url for a resource
CollaboratorsOf(request, env) ==
    LET name == request.params.name.s IN
    CASE request.method = "resources/read" -> {fetch_url(u, env) : u \in FetchUrls}
      [] request.method = "tools/call" ->
           (CASE name = "get_version" -> {get_version(env)}
              [] name = "supported_languages" -> {get_supported_languages(env)}
              [] name = "semgrep_scan" -> {scan(env)}
              [] name = "semgrep_scan_with_custom_rule" -> {scan_with_custom_rule(env)}
              [] name = "get_abstract_syntax_tree" -> {dump_ast(env)}
              [] name = "semgrep_findings" -> {get_findings(env)}
              [] OTHER -> {})
      [] OTHER -> {}
NoRepeat(ops) == \A i, j \in 1..Len(ops) : ops[i] = ops[j] => i = j

C17_AbsentFieldsOmitted ==
    \A j \in 1..Len(output) :
        LET w == output[j].line IN
        /\ w.id.k # "null"
        /\ VariantOf(input[output[j].of]) = "ParseFailure" => w.id.k = "absent"

(***************************************************************************)
(* C17, amended.  Every message the server writes has a jsonrpc and an id  *)
(* member and either a result or an error member, and no method and no     *)
(* params member.  The absent data of its error is omitted, never written  *)
(* as null.  The id is the one optional field written as null when it is   *)
(* absent: the reply to a line that failed to parse has the member         *)
(* "id": null, and every other reply has the id of its request.            *)
(***************************************************************************)
C17_AbsentIdIsNull ==
    \A j \in 1..Len(output) :
        LET w == output[j].line
            l == input[output[j].of]
        IN  /\ w.jsonrpc = Str("2.0")
            /\ w.method = Absent /\ w.params = NoParams
            /\ (w.result.k = "absent") # (w.error.k = "absent")
            /\ w.error.k \in {"absent", "err"}
            /\ w.error.k = "err" => w.error.data = "absent"
            /\ w.id.k \in {"null", "int", "str"}
            /\ w.id = Null <=> VariantOf(l) = "ParseFailure"
            /\ VariantOf(l) = "Request" => w.id = WireId(l)

\* A line that is no JSON was answered with an error that has a null id
\* and no data, and a request after it with an error that has its id.
C17_Witness ==
    /\ Len(input) = 2 /\ Len(output) = 2
    /\ input[1] = Garbage
    /\ output[1].line.id = Null /\ output[1].line.error.data = "absent"
    /\ output[2].line.id = Int_(1) /\ output[2].line.error.k = "err"

(***************************************************************************)
(* C18.  Round trip.  A Response or an ErrorResponse the program holds     *)
(* (its id a number, a string or, for an ErrorResponse, absent; its error  *)
(* with or without data), written as a line and read from that line, is a  *)
(* message of the same variant with an equal id and an equal result or     *)
(* error; the line never reads as a Request, a Notification or a parse     *)
(* failure.                                                                *)
(***************************************************************************)
C18_RoundTrip ==
    /\ probe.variant \in {"Response", "Error"}
    /\ phase = "read back" =>
          /\ answer.variant = probe.variant
          /\ answer.id = probe.id
          /\ answer.result = probe.result
          /\ answer.error = probe.error

\* An ErrorResponse without id and with data, and so one that only a line
\* can have brought, was written and read back.
C18_Witness ==
    /\ phase = "read back"
    /\ probe.variant = "Error" /\ probe.id = NoId /\ probe.error.data = "Some(value)"
    /\ answer = probe

(***************************************************************************)
(* C19.  tools/list succeeds whatever its params are, calls no             *)
(* collaborator and lists the six tools in the order semgrep_scan,         *)
(* semgrep_scan_with_custom_rule, get_abstract_syntax_tree,                *)
(* semgrep_findings, get_version, supported_languages; and tools/call      *)
(* answers a name with -32601 exactly when tools/list does not list it.    *)
(***************************************************************************)
Listed == {handle_list_tools.result.items[i] : i \in 1..Len(handle_list_tools.result.items)}

C19_ListTools ==
    /\ (phase = "returned" /\ probe.method = "tools/list") =>
          /\ answer.ok /\ answer.calls = <<>>
          /\ answer.result.items =
                <<"semgrep_scan", "semgrep_scan_with_custom_rule",
                  "get_abstract_syntax_tree", "semgrep_findings", "get_version",
                  "supported_languages">>
    /\ (/\ phase = "returned" /\ probe.method = "tools/call"
        /\ probe.params.k = "obj" /\ probe.params.name.k = "str") =>
          (probe.params.name.s \notin Listed
             <=> (~answer.ok /\ answer.error.code = -32601))

\* tools/list was called with params that are no object and answered with
\* the list.
C19_Witness ==
    /\ phase = "returned" /\ probe.method = "tools/list"
    /\ probe.params = ScalarParams
    /\ answer.ok /\ Len(answer.result.items) = 6
    /\ answer.result.items[1] = "semgrep_scan"

(***************************************************************************)
(* C20.  prompts/get whose params give a string name and arguments that    *)
(* map strings to strings (or no arguments, or null): with the name        *)
(* write_custom_semgrep_rule it succeeds and renders the template with the *)
(* language, the code and the language again, each the empty string when   *)
(* the argument is missing; with any other name it fails with -32601.      *)
(* Neither calls a collaborator.                                           *)
(***************************************************************************)
StringToString(a) ==
    \/ a.k \in {"absent", "null"}
    \/ a.k = "obj" /\ {a.paths, a.config, a.rule, a.code_files, a.code, a.language,
                        a.repos} \subseteq {"absent", "str"}

ProbeFailed(run) == ~run.spawned \/ (~run.success /\ run.stdout = "empty")

C21_InitializeVersion ==
    phase = "initialized" =>
        /\ answer.ok
        /\ answer.result.items =
              <<"2024-11-05", "logging:{}", "tools:{listChanged:false}", "sidero",
                IF ProbeFailed(probe.env.run) THEN "unknown" ELSE Stdout(probe.env.run)>>

(***************************************************************************)
(* C22.  A line that is empty or only whitespace, and a line that decodes  *)
(* as a Response or as an ErrorResponse, is passed over: no output line    *)
(* ever answers it, no handler runs for it and no collaborator operation   *)
(* is performed for it, and the step that reads it writes nothing, builds  *)
(* no message, logs nothing and leaves the loop in Reading at read_line.   *)
(***************************************************************************)
PassedOver == {"Blank", "Response", "Error"}

C22_PassedOver ==
    /\ [](\A i \in 1..Len(input) :
            VariantOf(input[i]) \in PassedOver =>
                Replies(i) = {} /\ i \notin handled /\ CallsOf(i) = {})
    /\ [][(Len(input') = Len(input) + 1
            /\ VariantOf(input'[Len(input')]) \in PassedOver)
          => (/\ output' = output /\ pending' = NoMessage /\ req' = NoMessage
              /\ handled' = handled /\ calls' = calls /\ log' = log
              /\ state' = "Reading" /\ pc' = "read")]_vars

\* A blank line and then an ErrorResponse without an id were read; nothing
\* was written, handled or called, and the loop is at read_line.
C22_Witness ==
    /\ Len(input) = 2 /\ output = <<>> /\ handled = {} /\ calls = <<>>
    /\ state = "Reading" /\ pc = "read"
    /\ VariantOf(input[1]) = "Blank"
    /\ VariantOf(input[2]) = "Error" /\ input[2].id = Absent

(***************************************************************************)
(* C23.  semgrep_findings with the token present hands get_findings a      *)
(* query computed from the `arguments` object: a repos array becomes one   *)
(* string, its elements joined by commas; every other argument that is not *)
(* null is passed unchanged under its key; a null argument is not passed;  *)
(* no other key is added.  As stated, every element of the array is in the *)
(* joined string.                                                          *)
(***************************************************************************)
\* an element of the array as it would stand in a joined list
ElementText(x) ==
    CASE x.k = "str" -> x.s
      [] x.k = "int" -> ToString(x.n)
      [] OTHER -> "null"
RECURSIVE CommaJoined(_)
CommaJoined(texts) ==
    IF texts = <<>> THEN ""
    ELSE IF Tail(texts) = <<>> THEN Head(texts)
    ELSE Head(texts) \o "," \o CommaJoined(Tail(texts))
StringElements(elems) ==
    LET strs == SelectSeq(elems, LAMBDA x : x.k = "str")
    IN  [i \in 1..Len(strs) |-> ElementText(strs[i])]
AllElements(elems) == [i \in 1..Len(elems) |-> ElementText(elems[i])]
\* the call reached get_findings: the query was handed over
Handed == phase = "queried" /\ answer.handed /\ probe.arguments.k = "obj"

\* the query is the arguments with repos, when an array, replaced by the
\* joined string of joined(elems), and with the nulls left out
QueryIs(joined(_)) ==
    LET obj == probe.arguments.members
        q == answer.query
    IN  /\ DOMAIN q \subseteq DOMAIN obj
        /\ \A key \in DOMAIN obj :
             IF key = "repos" /\ obj[key].arr
             THEN key \in DOMAIN q /\ q[key] = Member(Str(CommaJoined(joined(obj[key].elems))))
             ELSE IF obj[key] = Member(Null) THEN key \notin DOMAIN q
             ELSE key \in DOMAIN q /\ q[key] = obj[key]

C23_ReposJoined == Handed => QueryIs(AllElements)

\* C23, as the code has it: the joined string is made of the elements of
\* the array that are strings; an element that is not a string is left out.
C23_ReposStringsJoined == Handed => QueryIs(StringElements)

\* A call whose repos array holds a string and a number and whose status is
\* null reached get_findings, and the HTTP API was called.
C23_Witness ==
    /\ Handed
    /\ DOMAIN probe.arguments.members = {"repos", "status"}
    /\ probe.arguments.members["repos"] = List(<<Str("a"), Int_(1)>>)
    /\ probe.arguments.members["status"] = Member(Null)
    /\ answer.query = [key \in {"repos"} |-> Member(Str("a"))]
    /\ Contains(answer.outcome.calls, "GET findings")

(***************************************************************************)
(* C24.  Each of the five invocations of the subprocess, once the          *)
(* subprocess has run and exited non-zero: with nothing on stdout it fails *)
(* with a message that carries the stderr text; with something on stdout   *)
(* it does not fail for the exit status, and what it returns is the        *)
(* stdout.                                                                 *)
(***************************************************************************)
\* the subprocess of the invocation was started and has exited
Exited ==
    /\ phase = "invoked"
    /\ probe.env.run.spawned
    /\ answer.calls[Len(answer.calls)] \notin {"tempfile", "write rule", "write code"}

C24_ExitStatus ==
    (Exited /\ ~probe.env.run.success) =>
        IF probe.env.run.stdout = "empty"
        THEN ~answer.ok /\ Contains(answer.message, "stderr text")
        ELSE /\ ~Contains(answer.message, "stderr text")
             /\ answer.ok => answer.text = Stdout(probe.env.run)

(***************************************************************************)
(* C25.  A line that decodes as a Notification never reaches               *)
(* handle_request, whatever its method and params: no handler runs for it  *)
(* and no collaborator operation (subprocess, HTTP request, token lookup)  *)
(* is ever performed for it, and the step that reads it changes nothing    *)
(* but the input read so far and, at most, the log by one entry.           *)
(***************************************************************************)
C25_NotificationNotDispatched ==
    /\ [](\A i \in 1..Len(input) :
            VariantOf(input[i]) = "Notification" =>
                i \notin handled /\ CallsOf(i) = {})
    /\ [][(Len(input') = Len(input) + 1
            /\ VariantOf(input'[Len(input')]) = "Notification")
          => (/\ handled' = handled /\ calls' = calls /\ req' = NoMessage
              /\ log' \in {log, Append(log, "Client initialized notification received")}
              /\ UNCHANGED <<state, exit, stdin, stdout, pc, pending, output, token>>)]_vars

\* Two notifications were read whose methods, in a request, call a
\* collaborator: resources/read with the schema uri and tools/call with
\* get_version.  No handler ran and nothing was called.
C25_Witness ==
    /\ Len(input) = 2 /\ handled = {} /\ calls = <<>> /\ pc = "read"
    /\ VariantOf(input[1]) = "Notification" /\ input[1].method = Str("resources/read")
    /\ \A env \in LoopEnvs :
          handle_request(JsonRpcMessage(input[1]), env, token).calls # <<>>
    /\ VariantOf(input[2]) = "Notification" /\ input[2].method = Str("tools/call")
    /\ \A env \in LoopEnvs :
          handle_request(JsonRpcMessage(input[2]), env, token).calls # <<>>

(***************************************************************************)
(* C26.  No state of a session is kept between messages.  The line written *)
(* for a request is what handle_request makes of that request alone under  *)
(* some outcome of the collaborators, whatever was read before it; two     *)
(* equal requests of one run that call no collaborator get the same line,  *)
(* the second after a history the first did not have; every reply to       *)
(* tools/list, prompts/list and resources/list carries the same list; and  *)
(* between two iterations the loop holds no request and no reply.          *)
(***************************************************************************)
RequestLines == {i \in 1..Len(input) : VariantOf(input[i]) = "Request"}
ListOf(method) ==
    CASE method = "tools/list" ->
            <<"semgrep_scan", "semgrep_scan_with_custom_rule",
              "get_abstract_syntax_tree", "semgrep_findings", "get_version",
              "supported_languages">>
      [] method = "prompts/list" -> <<"write_custom_semgrep_rule">>
      [] method = "resources/list" -> <<"semgrep://rule/schema">>

C26_NoSessionState ==
    /\ \A i \in RequestLines : \A j \in Replies(i) :
          LET m == JsonRpcMessage(input[i]) IN
          /\ \E env \in LoopEnvs :
                output[j].line = to_string(Reply(m.id, handle_request(m, env, token)))
          /\ m.method \in {"tools/list", "prompts/list", "resources/list"} =>
                output[j].line.result.items = ListOf(m.method)
    /\ \A i, k \in RequestLines :
          (input[i] = input[k] /\ CallsOf(i) = {} /\ CallsOf(k) = {}) =>
              \A j \in Replies(i), n \in Replies(k) : output[j].line = output[n].line
    /\ pc = "read" => (req = NoMessage /\ pending = NoMessage)

\* The same tools/list request was read twice, the second time after the
\* first, and both times the six tools were written.
C26_Witness ==
    /\ Len(input) = 2 /\ Len(output) = 2 /\ pc = "read"
    /\ input[1] = input[2] /\ VariantOf(input[1]) = "Request"
    /\ JsonRpcMessage(input[1]).method = "tools/list"
    /\ output[1].line = output[2].line
    /\ Len(output[2].line.result.items) = 6

=============================================================================
